---- MODULE Spec2Model ----
(***************************************************************************)
(* State machine of the revolver game plugin (src/main.py): the per-group   *)
(* game registry, the timeout tasks, the AI trigger queue and the handlers  *)
(* that run on the single asyncio event loop.  One action is one run of a   *)
(* handler between two suspension points (an await on network I/O, a sleep, *)
(* or a yield of a reply to the framework).                                 *)
(***************************************************************************)
EXTENDS Integers, Sequences, FiniteSets, Bags, TLC

\* ---------------------------------------------------------------- constants
CHAMBER_COUNT == 6
DEFAULT_MIN_BAN == 60
DEFAULT_MAX_BAN == 300

\* ------------------------------------------------------------------- bounds
MaxGames == 2
MaxTasks == 3
MaxInFlight == 2
MaxEnqueue == 2
\* the positions random.sample may draw are the first MaxLivePos ones
MaxLivePos == 2
\* timeouts armed in a game played to the end of the cylinder: a load, six fires
MaxLongTasks == 7
\* the largest configured mute duration the ban specification draws
MaxBanSeconds == 2

Groups == {1, 2}
\* the group the single-group specifications play in
OneGroup == {1}
Keys == {1}
Pos == 0 .. (CHAMBER_COUNT - 1)

\* message argument of the load command: no argument, or an integer
Absent == -1
CountInputs == {Absent, 0, 1, CHAMBER_COUNT, CHAMBER_COUNT + 1}
\* Python None for a bullet count
NoCount == 0
\* absent dictionary entry (group_games, timeout_tasks) / absent queue entry
NoGame == 0
NoTask == 0
NoAction == "none"
Actions == {"start", "join", "status"}

VARIABLES
    group_games,        \* self.group_games: group -> game object (heap id)
    games,              \* heap of game dicts: id -> [chambers, current]
    timeout_tasks,      \* self.timeout_tasks: group -> asyncio.Task (task id)
    tasks,              \* every task created by _start_timeout: id -> [g, state, deleted]
    ai_trigger_queue,   \* self.ai_trigger_queue: key -> action
    ops,                \* bag of handler invocations suspended at an await / yield
    replied,            \* key -> the host has sent the classifier's own reply
    enqueued,           \* key -> number of _register_ai_trigger calls so far
    lastReply,          \* group -> the reply the latest step emitted there, if any
    lastExec,           \* key -> what the most recent _execute_ai_trigger dispatched
    dispatched,         \* key -> dispatches since the key was last enqueued
    lastEnq,            \* key -> the action of the most recent enqueue
    overwritten,        \* key -> the pending action the most recent enqueue replaced
    noticed,            \* ids of the games a timeout notice was sent for
    exhausted,          \* ids of the games whose last live chamber has been fired
    endSignals,         \* game id -> 1 once a fire announced the end of the game
    created,            \* the game creation the latest step made, if any: [n, arg, by]
    group_misfire,      \* self.group_misfire: group -> "on" / "off", or "unset"
    default_misfire,    \* self.default_misfire: option misfire_enabled_by_default
    terminated,         \* terminate() has run
    min_ban,            \* self.min_ban: option min_ban_seconds
    max_ban             \* self.max_ban: option max_ban_seconds

vars == <<group_games, games, timeout_tasks, tasks, ai_trigger_queue, ops,
          replied, enqueued, lastReply, lastExec, dispatched, lastEnq,
          overwritten, noticed, exhausted, endSignals, created, group_misfire,
          default_misfire, terminated, min_ban, max_ban>>

gameVars == <<group_games, games, timeout_tasks, tasks>>
ghostVars == <<noticed, exhausted, endSignals>>
misfireVars == <<group_misfire, default_misfire>>
banVars == <<min_ban, max_ban>>
queueVars == <<ai_trigger_queue, replied, enqueued, lastExec, dispatched, lastEnq,
               overwritten>>

\* ------------------------------------------------------------ pure helpers
Sum(ch) == Cardinality({i \in Pos : ch[i]})

\* the number of suspended fires in bag b that hold game id
FireOps(b, id) ==
    LET S == {r \in BagToSet(b) : r.kind = "fire" /\ r.game = id}
    IN  BagCardinality([r \in S |-> b[r]])

\* faulty variant: positions drawn with repetition, so fewer rounds may be live
create_chambers_repeating(bullet_count) ==
    {ch \in [Pos -> BOOLEAN] : Sum(ch) <= bullet_count}

\* _create_chambers: every result random.sample can produce
create_chambers(bullet_count) ==
    IF bullet_count > 0
    THEN {ch \in [Pos -> BOOLEAN] : Sum(ch) = bullet_count}
    ELSE {[i \in Pos |-> FALSE]}

\* the chamber lists whose live rounds all sit in the first m positions
Layouts(m) == {[i \in Pos |-> i \in S] : S \in SUBSET (0 .. (m - 1))}

\* _get_random_bullet_count: random.randint(1, CHAMBER_COUNT)
get_random_bullet_count == 1 .. CHAMBER_COUNT

\* _parse_bullet_count: None unless an integer in [1, CHAMBER_COUNT] was given
parse_bullet_count(c) ==
    IF c # Absent /\ 1 <= c /\ c <= CHAMBER_COUNT THEN c ELSE NoCount

GroupOfKey(k) == 1

\* a reply: the operation answered, its entry point, the kind of text, and for
\* a status report the two figures it shows
Reply(op, via, msg) ==
    [op |-> op, via |-> via, msg |-> msg, remaining |-> 0, live |-> FALSE]
NoReply == Reply("none", "none", "none")

\* a suspended handler: its kind, entry point (command or AI method), group,
\* suspension point, the game object it holds, its bullet count, pending text,
\* (for the drain hook) its queue key and (while the mute call is awaited) what
\* the role lookup before it answered and the duration passed to the call
Op(kind, via, g, pc, game, n, msg) ==
    [kind |-> kind, via |-> via, g |-> g, pc |-> pc, game |-> game, n |-> n,
     msg |-> msg, k |-> 0, role |-> "none", duration |-> 0]

\* faulty variant: the draw ignores the lower limit
randint_from_zero(a, b) == 0 .. b

\* random.randint(a, b): every integer it can return
randint(a, b) == a .. b

\* faulty variant: everybody can be muted
is_user_bannable_always(res) == TRUE

\* faulty variant: a lookup that raises counts as immune
is_user_bannable_strict(res) == res = "member"

\* external role lookup get_group_member_info: a role, or an exception
LookupResults == {"owner", "admin", "member", "error"}

\* _is_user_bannable: owner and admin are immune, an exception counts as bannable
is_user_bannable(res) == res \notin {"owner", "admin"}

\* the game dicts still referred to by the registry gg or by a handler in os
Referenced(gg, os) == {gg[g] : g \in Groups} \cup {r.game : r \in BagToSet(os)}

\* a game dict nothing refers to any more (reclaimed by the interpreter)
DeadGame == [chambers |-> [i \in Pos |-> FALSE], current |-> 0]

\* the heap gs once the dicts nothing refers to are reclaimed
Collect(gs, gg, os) ==
    [i \in DOMAIN gs |-> IF i \in Referenced(gg, os) THEN gs[i] ELSE DeadGame]

InFlight == BagCardinality(ops)
AddOp(b, r) == b (+) SetToBag({r})
DelOp(b, r) == b (-) SetToBag({r})

\* ------------------------------------------------------------ timeout tasks
\* Task.cancel(): a task that has not finished gets CancelledError at its
\* suspension point and ends without running anything else
CancelTask(ts, t) ==
    IF t # NoTask /\ ts[t].state \in {"sleeping", "sending"}
    THEN [ts EXCEPT ![t].state = "cancelled", ![t].deleted = NoGame]
    ELSE ts

NewTask(g) == [g |-> g, state |-> "sleeping", deleted |-> NoGame]

\* faulty variant: arming leaves the previous task of the group running
CancelPreviousNever(ts, tt, g) == ts

\* _start_timeout, lines 795-799: cancel the previous task of the group
CancelPrevious(ts, tt, g) == CancelTask(ts, tt[g])

\* faulty variant: one timeout handle shared by all groups
start_timeout_table_shared(ts, tt, g) == [h \in Groups |-> Len(ts) + 1]

\* _start_timeout: the task list and the table after arming group g
start_timeout_tasks(ts, tt, g) == Append(CancelPrevious(ts, tt, g), NewTask(g))
start_timeout_table(ts, tt, g) == [tt EXCEPT ![g] = Len(ts) + 1]

\* the step emits a reply in group g / the step emits nothing
Say(g, op, via, msg) ==
    lastReply' = [h \in Groups |-> IF h = g THEN Reply(op, via, msg) ELSE NoReply]
Quiet == lastReply' = [h \in Groups |-> NoReply]

\* a game creation: n rounds loaded, for the count argument arg of the request
\* (Absent if none), supplied by an admin, by a non-admin, or drawn ("none")
Creation(n, arg, by) == [n |-> n, arg |-> arg, by |-> by]
NoCreation == Creation(NoCount, Absent, "none")

\* the step creates no game
NoCreate == created' = NoCreation

\* an absent entry of self.group_misfire
Unset == "unset"

\* _init_group: a group without an entry gets the configured default
init_group(gm, dm, g) ==
    IF gm[g] = Unset THEN [gm EXCEPT ![g] = IF dm THEN "on" ELSE "off"] ELSE gm

\* the step calls self._init_group(g)
InitGroup(g) ==
    /\ group_misfire' = init_group(group_misfire, default_misfire, g)
    /\ UNCHANGED <<default_misfire, terminated, banVars>>

\* ------------------------------------------------------------------- start
\* lines 479-488 / 967-976: create the game dict, store it, arm the timeout;
\* os is the bag of suspended handlers the step leaves
CreateGame(g, req, ch, os) ==
    LET gg == [group_games EXCEPT ![g] = Len(games) + 1] IN
    /\ Len(games) < MaxGames
    /\ Len(tasks) < MaxTasks
    /\ group_games' = gg
    /\ games' = Collect(Append(games, [chambers |-> ch, current |-> 0]), gg, os)
    /\ tasks' = start_timeout_tasks(tasks, timeout_tasks, g)
    /\ timeout_tasks' = start_timeout_table(tasks, timeout_tasks, g)
    /\ endSignals' = Append(endSignals, 0)
    /\ ops' = os
    /\ created' = req
    /\ UNCHANGED <<noticed, exhausted>>

\* load_bullets up to its first suspension point.  superAdmin is
\* event.is_admin(), which answers the admin check without suspending; L is
\* the set of chamber lists the random source may produce.
LoadStart(g, c, superAdmin, L) ==
    /\ UNCHANGED queueVars
    /\ InitGroup(g)
    /\ IF group_games[g] # NoGame
       THEN /\ Say(g, "load", "cmd", "AlreadyInProgress")
            /\ NoCreate
            /\ UNCHANGED <<gameVars, ops, ghostVars>>
       ELSE LET bc == parse_bullet_count(c) IN
            IF bc # NoCount
            THEN IF superAdmin
                 THEN /\ \E ch \in L : ch \in create_chambers(bc) /\ CreateGame(g, Creation(bc, c, "admin"), ch, ops)
                      /\ Say(g, "load", "cmd", "Loaded")
                 ELSE /\ InFlight < MaxInFlight
                      /\ \E ch \in L : ch \in create_chambers(bc)
                      /\ ops' = AddOp(ops, Op("load", "cmd", g, "admin", NoGame, bc, "none"))
                      /\ NoCreate
                      /\ UNCHANGED <<gameVars, ghostVars>>
                      /\ Quiet
            ELSE /\ \E n \in get_random_bullet_count :
                    \E ch \in L : ch \in create_chambers(n) /\ CreateGame(g, Creation(n, c, "none"), ch, ops)
                 /\ Say(g, "load", "cmd", "Loaded")

\* load_bullets resumed after await self._is_group_admin(event)
LoadAdmin(r, isAdmin, L) ==
    /\ r.kind = "load" /\ r.pc = "admin"
    /\ UNCHANGED <<queueVars, misfireVars, terminated, banVars>>
    /\ IF isAdmin
       THEN /\ \E ch \in L : ch \in create_chambers(r.n) /\ CreateGame(r.g, Creation(r.n, r.n, "admin"), ch, DelOp(ops, r))
            /\ Say(r.g, "load", "cmd", "Loaded")
       ELSE /\ Say(r.g, "load", "cmd", "PermissionDenied")
            /\ ops' = DelOp(ops, r)
            /\ NoCreate
            /\ UNCHANGED <<gameVars, ghostVars>>

\* -------------------------------------------------------------------- fire
\* faulty variant: the chamber that was fired stays live
shoot_chamber_keep(gm) ==
    [chambers |-> gm.chambers, current |-> (gm.current + 1) % CHAMBER_COUNT]

\* faulty variant: the cursor advances on a miss only
shoot_chamber_stuck(gm) ==
    [chambers |-> [gm.chambers EXCEPT ![gm.current] = FALSE],
     current |-> IF gm.chambers[gm.current] THEN gm.current
                 ELSE (gm.current + 1) % CHAMBER_COUNT]

\* faulty variant: a miss leaves a round in the chamber it read
shoot_chamber_toggle(gm) ==
    [chambers |-> [gm.chambers EXCEPT ![gm.current] = ~@],
     current |-> (gm.current + 1) % CHAMBER_COUNT]

\* lines 533-536 / 568: clear the chamber under the cursor if live, advance
shoot_chamber(gm) ==
    [chambers |-> [gm.chambers EXCEPT ![gm.current] = FALSE],
     current |-> (gm.current + 1) % CHAMBER_COUNT]

\* hand the outcome text of a fire to the chat: the command yields it and is
\* suspended at the yield; the AI method awaits send_group_msg first
EmitOutcome(r, msg) ==
    IF r.via = "cmd"
    THEN /\ Say(r.g, "fire", "cmd", msg)
         /\ ops' = AddOp(DelOp(ops, r),
                         [r EXCEPT !.pc = "check", !.role = "none", !.duration = 0])
    ELSE /\ Quiet
         /\ ops' = AddOp(DelOp(ops, r),
                         [r EXCEPT !.pc = "send", !.msg = msg, !.role = "none",
                                   !.duration = 0])

\* faulty variant: the lookup falls back on the most recent game dict
get_game_latest(gg, g) == IF gg[g] = NoGame /\ games # <<>> THEN Len(games) ELSE gg[g]

\* lines 521 / 1008: game = self.group_games.get(group_id)
get_game(gg, g) == gg[g]

\* shoot / ai_join_game up to the first suspension point; base is the bag of
\* the other suspended handlers, maxTasks and maxOps bound the tasks created
\* and the handlers in flight
FireWithin(g, via, sendOk, base, maxTasks, maxOps) ==
    /\ NoCreate
    /\ InitGroup(g)
    /\ UNCHANGED <<noticed, endSignals>>
    /\ IF get_game(group_games, g) = NoGame
       THEN /\ Say(g, "fire", via, IF via = "cmd" \/ sendOk THEN "NoActiveGame" ELSE "Failed")
            /\ UNCHANGED <<gameVars, exhausted>>
            /\ ops' = base
       ELSE LET id == get_game(group_games, g)
                gm == games[id]
                hit == gm.chambers[gm.current]
                shot == shoot_chamber(gm)
                r == Op("fire", via, g, "start", id, 0, "none")
            IN  /\ Len(tasks) < maxTasks
                /\ BagCardinality(base) < maxOps
                /\ tasks' = start_timeout_tasks(tasks, timeout_tasks, g)
                /\ timeout_tasks' = start_timeout_table(tasks, timeout_tasks, g)
                /\ games' = [games EXCEPT ![id] = shot]
                /\ exhausted' = IF hit /\ Sum(shot.chambers) = 0
                                THEN exhausted \cup {id} ELSE exhausted
                /\ UNCHANGED group_games
                /\ IF hit
                   THEN /\ ops' = AddOp(base, [r EXCEPT !.pc = "lookup1"])
                        /\ Quiet
                   ELSE IF via = "cmd"
                        THEN /\ Say(g, "fire", "cmd", "Miss")
                             /\ ops' = AddOp(base, [r EXCEPT !.pc = "check"])
                        ELSE /\ Quiet
                             /\ ops' = AddOp(base, [r EXCEPT !.pc = "send", !.msg = "Miss"])

FireBody(g, via, sendOk, base) ==
    FireWithin(g, via, sendOk, base, MaxTasks, MaxInFlight)

FireStart(g) ==
    /\ FireBody(g, "cmd", TRUE, ops)
    /\ UNCHANGED queueVars

\* the fire command in a long game: up to MaxLongTasks timeouts armed
FireLong(g) ==
    /\ FireWithin(g, "cmd", TRUE, ops, MaxLongTasks, MaxInFlight)
    /\ UNCHANGED queueVars

\* resumed after await self._is_user_bannable(event, user_id) in the handler
FireLookup1(r, res) ==
    /\ r.kind = "fire" /\ r.pc = "lookup1"
    /\ NoCreate
    /\ UNCHANGED <<gameVars, queueVars, ghostVars, misfireVars, terminated, banVars>>
    /\ IF is_user_bannable(res)
       THEN /\ ops' = AddOp(DelOp(ops, r), [r EXCEPT !.pc = "lookup2"])
            /\ Quiet
       ELSE EmitOutcome(r, "HitImmune")

\* _ban_user resumed after its own await self._is_user_bannable: for a
\* bannable target it draws the duration and calls set_group_ban
FireLookup2(r, res) ==
    /\ r.kind = "fire" /\ r.pc = "lookup2"
    /\ NoCreate
    /\ UNCHANGED <<gameVars, queueVars, ghostVars, misfireVars, terminated, banVars>>
    /\ IF is_user_bannable(res)
       THEN /\ \E d \in randint(min_ban, max_ban) :
                   ops' = AddOp(DelOp(ops, r),
                                [r EXCEPT !.pc = "mute", !.role = res, !.duration = d])
            /\ Quiet
       ELSE EmitOutcome(r, "HitBanFailed")

\* faulty variant: the exception of the mute call is not caught in _ban_user
\* and ends the handler in its except clause
FireMuteRaises(r, muteOk) ==
    /\ r.kind = "fire" /\ r.pc = "mute"
    /\ NoCreate
    /\ UNCHANGED <<gameVars, queueVars, ghostVars, misfireVars, terminated, banVars>>
    /\ IF muteOk
       THEN EmitOutcome(r, "HitBanned")
       ELSE /\ Say(r.g, "fire", r.via, "Failed")
            /\ ops' = DelOp(ops, r)

\* _ban_user resumed after await event.bot.set_group_ban (or its exception)
FireMute(r, muteOk) ==
    /\ r.kind = "fire" /\ r.pc = "mute"
    /\ NoCreate
    /\ UNCHANGED <<gameVars, queueVars, ghostVars, misfireVars, terminated, banVars>>
    /\ EmitOutcome(r, IF muteOk THEN "HitBanned" ELSE "HitBanFailed")

\* ai_join_game resumed after await send_group_msg(result_msg); an exception
\* goes to the handler's except clause, which skips the end-of-game check
FireSend(r, sendOk) ==
    /\ r.kind = "fire" /\ r.pc = "send"
    /\ NoCreate
    /\ UNCHANGED <<group_games, timeout_tasks, tasks, queueVars, ghostVars, misfireVars, terminated, banVars>>
    /\ IF sendOk
       THEN /\ Say(r.g, "fire", "ai", r.msg)
            /\ ops' = AddOp(DelOp(ops, r), [r EXCEPT !.pc = "check", !.msg = "none"])
            /\ UNCHANGED games
       ELSE /\ Say(r.g, "fire", "ai", "Failed")
            /\ ops' = DelOp(ops, r)
            /\ games' = Collect(games, group_games, DelOp(ops, r))

\* lines 578-596 / 1068-1089: the end-of-game check after the reply
FireCheck(r, sendOk) ==
    /\ r.kind = "fire" /\ r.pc = "check"
    /\ NoCreate
    /\ UNCHANGED <<queueVars, noticed, exhausted, misfireVars, terminated, banVars>>
    /\ ops' = DelOp(ops, r)
    /\ IF Sum(games[r.game].chambers) = 0
       THEN /\ tasks' = CancelTask(tasks, timeout_tasks[r.g])
            /\ timeout_tasks' = [timeout_tasks EXCEPT ![r.g] = NoTask]
            /\ IF group_games[r.g] = NoGame
               THEN \* del self.group_games[group_id] raises KeyError
                    /\ Say(r.g, "fire", r.via, "Failed")
                    /\ UNCHANGED <<group_games, endSignals>>
                    /\ games' = Collect(games, group_games, DelOp(ops, r))
               ELSE LET gg == [group_games EXCEPT ![r.g] = NoGame] IN
                    /\ group_games' = gg
                    /\ games' = Collect(games, gg, DelOp(ops, r))
                    /\ endSignals' = [endSignals EXCEPT ![group_games[r.g]] = @ + 1]
                    /\ Say(r.g, "fire", r.via,
                           IF r.via = "cmd" \/ sendOk THEN "GameEnd" ELSE "Failed")
       ELSE /\ UNCHANGED <<group_games, tasks, timeout_tasks, endSignals>>
            /\ games' = Collect(games, group_games, DelOp(ops, r))
            /\ Quiet

\* ------------------------------------------------------------------ status
\* faulty variant: the report looks at the chamber after the cursor
game_snapshot_next(gm) ==
    [remaining |-> Sum(gm.chambers),
     live |-> gm.chambers[(gm.current + 1) % CHAMBER_COUNT]]

\* lines 623-627 / 1106-1110: remaining = sum(chambers) and whether
\* chambers[current] is live
game_snapshot(gm) ==
    [remaining |-> Sum(gm.chambers), live |-> gm.chambers[gm.current]]

\* the status report for game gm
StatusReply(via, gm) ==
    [Reply("status", via, "Status") EXCEPT !.remaining = game_snapshot(gm).remaining,
                                           !.live = game_snapshot(gm).live]

\* game_status / ai_check_status
StatusBody(g, via, sendOk) ==
    /\ lastReply' =
           [h \in Groups |->
               IF h # g THEN NoReply
               ELSE IF via = "ai" /\ ~sendOk THEN Reply("status", via, "Failed")
               ELSE IF group_games[g] = NoGame THEN Reply("status", via, "NoActiveGame")
               ELSE StatusReply(via, games[group_games[g]])]
    /\ NoCreate
    /\ UNCHANGED <<gameVars, ghostVars, misfireVars, terminated, banVars>>

Status(g) ==
    /\ StatusBody(g, "cmd", TRUE)
    /\ UNCHANGED <<queueVars, ops>>

\* ai_start_game(event, None); base is the bag of the other suspended handlers
AiStartBody(g, sendOk, base, L) ==
    /\ InitGroup(g)
    /\ IF group_games[g] # NoGame
       THEN /\ Say(g, "load", "ai", IF sendOk THEN "AlreadyInProgress" ELSE "Failed")
            /\ ops' = base
            /\ NoCreate
            /\ UNCHANGED <<gameVars, ghostVars>>
       ELSE /\ \E n \in get_random_bullet_count :
                 \E ch \in L : ch \in create_chambers(n) /\ CreateGame(g, Creation(n, Absent, "none"), ch, base)
            /\ Say(g, "load", "ai", IF sendOk THEN "Loaded" ELSE "Failed")

\* ----------------------------------------------------------------- timeout
\* timeout_check resumed after asyncio.sleep(self.timeout)
TimeoutFire(t) ==
    /\ tasks[t].state = "sleeping"
    /\ NoCreate
    /\ UNCHANGED <<timeout_tasks, queueVars, ops, ghostVars, misfireVars, terminated, banVars>>
    /\ Quiet
    /\ LET g == tasks[t].g
           gg == [group_games EXCEPT ![g] = NoGame]
       IN  IF group_games[g] # NoGame
           THEN /\ group_games' = gg
                /\ games' = Collect(games, gg, ops)
                /\ tasks' = [tasks EXCEPT ![t].state = "sending",
                                          ![t].deleted = group_games[g]]
           ELSE /\ tasks' = [tasks EXCEPT ![t].state = "done"]
                /\ UNCHANGED <<group_games, games>>

\* timeout_check resumed after await bot.send_group_msg (or its exception)
TimeoutNotify(t, sendOk) ==
    /\ tasks[t].state = "sending"
    /\ tasks' = [tasks EXCEPT ![t].state = "done", ![t].deleted = NoGame]
    /\ NoCreate
    /\ UNCHANGED <<group_games, games, timeout_tasks, queueVars, ops, exhausted,
                   endSignals, misfireVars, terminated, banVars>>
    /\ IF sendOk
       THEN /\ noticed' = noticed \cup {tasks[t].deleted}
            /\ Say(tasks[t].g, "timeout", "bot", "Timeout")
       ELSE UNCHANGED noticed /\ Quiet

\* ----------------------------------------------------------- trigger queue
\* faulty variant: registering keeps an entry that is already pending
RegisterKeepFirst(q, k, a) == IF q[k] # NoAction THEN q ELSE [q EXCEPT ![k] = a]

\* _register_ai_trigger: the entry of the key after registering action a
RegisterTrigger(q, k, a) == [q EXCEPT ![k] = a]

\* faulty variant: executing reads the entry and leaves it in the queue
PopTriggerKeep(q, k) == q

\* _execute_ai_trigger, line 863: self.ai_trigger_queue.pop(unique_id)
PopTrigger(q, k) == [q EXCEPT ![k] = NoAction]

\* RevolverGameTool.run -> _register_ai_trigger
Enqueue(k, a) ==
    /\ enqueued[k] < MaxEnqueue
    /\ ai_trigger_queue' = RegisterTrigger(ai_trigger_queue, k, a)
    /\ enqueued' = [enqueued EXCEPT ![k] = @ + 1]
    /\ dispatched' = [dispatched EXCEPT ![k] = 0]
    /\ lastEnq' = [lastEnq EXCEPT ![k] = a]
    /\ overwritten' = [overwritten EXCEPT ![k] = ai_trigger_queue[k]]
    /\ NoCreate
    /\ UNCHANGED <<gameVars, ops, replied, lastExec, ghostVars, misfireVars, terminated, banVars>>
    /\ Quiet

\* the host sends the classifier's own reply to the message
HostReply(k) ==
    /\ ~replied[k]
    /\ replied' = [replied EXCEPT ![k] = TRUE]
    /\ NoCreate
    /\ UNCHANGED <<gameVars, ops, ai_trigger_queue, enqueued, lastExec, dispatched,
                   lastEnq, overwritten, ghostVars, misfireVars, terminated, banVars>>
    /\ Quiet

\* _execute_ai_trigger, lines 863-879: pop the entry of the key, dispatch it
ExecuteBody(k, sendOk, base, L) ==
    LET a == ai_trigger_queue[k]
        g == GroupOfKey(k)
    IN  /\ a # NoAction
        /\ ai_trigger_queue' = PopTrigger(ai_trigger_queue, k)
        /\ lastExec' = [lastExec EXCEPT ![k] = a]
        /\ dispatched' = [dispatched EXCEPT ![k] = @ + 1]
        /\ UNCHANGED <<enqueued, lastEnq, overwritten>>
        /\ CASE a = "start" -> AiStartBody(g, sendOk, base, L)
             [] a = "join" -> FireBody(g, "ai", sendOk, base)
             [] a = "status" -> StatusBody(g, "ai", sendOk) /\ ops' = base

\* _execute_ai_trigger for a key that is in the queue: pop, then dispatch
ExecuteTrigger(k, sendOk, base, L) ==
    /\ ExecuteBody(k, sendOk, base, L)
    /\ UNCHANGED replied

\* _on_decorating_result up to await asyncio.sleep(delay)
OnDecoratingResult(k) ==
    /\ ai_trigger_queue[k] # NoAction
    /\ InFlight < MaxInFlight
    /\ ops' = AddOp(ops, [Op("hook", "ai", GroupOfKey(k), "sleep", NoGame, 0, "none")
                          EXCEPT !.k = k])
    /\ NoCreate
    /\ UNCHANGED <<gameVars, queueVars, ghostVars, misfireVars, terminated, banVars>>
    /\ Quiet

\* _on_decorating_result resumed after the sleep: _execute_ai_trigger
HookWake(r, sendOk, L) ==
    /\ r.kind = "hook" /\ r.pc = "sleep"
    /\ IF ai_trigger_queue[r.k] # NoAction
       THEN ExecuteTrigger(r.k, sendOk, DelOp(ops, r), L)
       ELSE /\ ops' = DelOp(ops, r)
            /\ NoCreate
            /\ UNCHANGED <<gameVars, queueVars, ghostVars, misfireVars, terminated, banVars>>
            /\ Quiet

\* _on_message_sent: the backup drain, run after the host has sent a message
OnMessageSent(k, sendOk, L) ==
    /\ replied[k]
    /\ ai_trigger_queue[k] # NoAction
    /\ ExecuteTrigger(k, sendOk, ops, L)

\* the decorating hook of the message of key k: the host runs it before it
\* sends the reply to that message
DecorateBeforeSend(k) ==
    /\ ~replied[k]
    /\ OnDecoratingResult(k)

\* the host sends the reply to the message of key k, once its decorating
\* hooks have returned, and then runs _on_message_sent for it
HostSendThenHook(k, sendOk, L) ==
    /\ ~replied[k]
    /\ \A r \in BagToSet(ops) : ~(r.kind = "hook" /\ r.k = k)
    /\ replied' = [replied EXCEPT ![k] = TRUE]
    /\ IF ai_trigger_queue[k] # NoAction
       THEN ExecuteBody(k, sendOk, ops, L)
       ELSE /\ NoCreate
            /\ Quiet
            /\ UNCHANGED <<gameVars, ops, ai_trigger_queue, enqueued, lastExec,
                           dispatched, lastEnq, overwritten, ghostVars, misfireVars, terminated, banVars>>

\* ----------------------------------------------------------------- misfire
\* faulty variant: the trial ignores the toggle of the group
check_misfire_any(gm, g, draw) == draw

\* _check_misfire: the toggle of the group, read with a default of False for
\* a group without an entry, then the trial random.random() < misfire_prob
check_misfire(gm, g, draw) == gm[g] = "on" /\ draw

\* enable_misfire / disable_misfire, lines 695-699 / 723-727: _init_group,
\* then store the toggle
set_misfire(gm, dm, g, on) ==
    [init_group(gm, dm, g) EXCEPT ![g] = IF on THEN "on" ELSE "off"]

\* enable_misfire (on) / disable_misfire; isAdmin is the answer of the awaited
\* self._is_group_admin(event), before which the handler reads no state
SetMisfire(g, on, isAdmin) ==
    /\ NoCreate
    /\ UNCHANGED <<gameVars, queueVars, ghostVars, ops, default_misfire, terminated,
                   banVars>>
    /\ IF isAdmin
       THEN /\ group_misfire' = set_misfire(group_misfire, default_misfire, g, on)
            /\ Say(g, "toggle", "cmd", IF on THEN "MisfireOn" ELSE "MisfireOff")
       ELSE /\ UNCHANGED group_misfire
            /\ Say(g, "toggle", "cmd", "PermissionDenied")

\* on_group_message up to its first suspension point; draw is the outcome of
\* the trial random.random() < self.misfire_prob
OnGroupMessage(g, draw) ==
    /\ NoCreate
    /\ UNCHANGED <<gameVars, queueVars, ghostVars, misfireVars, terminated, banVars>>
    /\ Quiet
    /\ IF check_misfire(group_misfire, g, draw)
       THEN /\ InFlight < MaxInFlight
            /\ ops' = AddOp(ops, Op("misfire", "cmd", g, "lookup1", NoGame, 0, "none"))
       ELSE UNCHANGED ops

\* on_group_message resumed after await self._is_user_bannable
MisfireLookup1(r, res) ==
    /\ r.kind = "misfire" /\ r.pc = "lookup1"
    /\ NoCreate
    /\ UNCHANGED <<gameVars, queueVars, ghostVars, misfireVars, terminated, banVars>>
    /\ IF is_user_bannable(res)
       THEN /\ ops' = AddOp(DelOp(ops, r), [r EXCEPT !.pc = "lookup2"])
            /\ Quiet
       ELSE /\ ops' = DelOp(ops, r)
            /\ Say(r.g, "misfire", "cmd", "MisfireImmune")

\* _ban_user, called by on_group_message, resumed after its own lookup
MisfireLookup2(r, res) ==
    /\ r.kind = "misfire" /\ r.pc = "lookup2"
    /\ NoCreate
    /\ UNCHANGED <<gameVars, queueVars, ghostVars, misfireVars, terminated, banVars>>
    /\ IF is_user_bannable(res)
       THEN /\ \E d \in randint(min_ban, max_ban) :
                   ops' = AddOp(DelOp(ops, r),
                                [r EXCEPT !.pc = "mute", !.role = res, !.duration = d])
            /\ Quiet
       ELSE /\ ops' = DelOp(ops, r)
            /\ Say(r.g, "misfire", "cmd", "MisfireBanFailed")

\* _ban_user, called by on_group_message, resumed after set_group_ban
MisfireMute(r, muteOk) ==
    /\ r.kind = "misfire" /\ r.pc = "mute"
    /\ NoCreate
    /\ UNCHANGED <<gameVars, queueVars, ghostVars, misfireVars, terminated, banVars>>
    /\ ops' = DelOp(ops, r)
    /\ Say(r.g, "misfire", "cmd", IF muteOk THEN "MisfireBanned" ELSE "MisfireBanFailed")

\* --------------------------------------------------------------- terminate
\* faulty variant: the outstanding timeout tasks are left running
terminate_tasks_keep(ts, tt) == ts

\* terminate, lines 1137-1139: cancel every task of the table that is not done
terminate_tasks(ts, tt) ==
    [t \in DOMAIN ts |->
        IF \E g \in Groups : tt[g] = t THEN CancelTask(ts, t)[t] ELSE ts[t]]

\* terminate: cancel the timeout tasks, clear the four dicts; it has no
\* suspension point.  The handlers suspended at that moment stay suspended.
Terminate ==
    LET gg == [g \in Groups |-> NoGame] IN
    /\ ~terminated
    /\ terminated' = TRUE
    /\ tasks' = terminate_tasks(tasks, timeout_tasks)
    /\ group_games' = gg
    /\ games' = Collect(games, gg, ops)
    /\ group_misfire' = [g \in Groups |-> Unset]
    /\ timeout_tasks' = [g \in Groups |-> NoTask]
    /\ ai_trigger_queue' = [k \in Keys |-> NoAction]
    /\ NoCreate
    /\ Quiet
    /\ UNCHANGED <<ops, replied, enqueued, lastExec, dispatched, lastEnq, overwritten,
                   ghostVars, default_misfire, banVars>>

\* ------------------------------------------------------ text lookup errors
\* load_bullets without a count when text_manager.get_text("load_messages")
\* raises (a configured text that does not format): the game is stored and
\* its timeout armed by then, the except clause yields the failure reply
LoadTextError(g, L) ==
    /\ group_games[g] = NoGame
    /\ UNCHANGED queueVars
    /\ InitGroup(g)
    /\ \E n \in get_random_bullet_count :
          \E ch \in L : ch \in create_chambers(n) /\ CreateGame(g, Creation(n, Absent, "none"), ch, ops)
    /\ Say(g, "load", "cmd", "Failed")

\* shoot on an empty chamber when text_manager.get_text("miss_messages")
\* raises: the timeout is re-armed and the cursor advanced by then, the
\* except clause yields the failure reply and the end-of-game check is skipped
FireTextError(g) ==
    LET id == get_game(group_games, g)
        gm == games[id]
    IN  /\ id # NoGame
        /\ ~gm.chambers[gm.current]
        /\ Len(tasks) < MaxTasks
        /\ InitGroup(g)
        /\ NoCreate
        /\ tasks' = start_timeout_tasks(tasks, timeout_tasks, g)
        /\ timeout_tasks' = start_timeout_table(tasks, timeout_tasks, g)
        /\ games' = [games EXCEPT ![id] = shoot_chamber(gm)]
        /\ Say(g, "fire", "cmd", "Failed")
        /\ UNCHANGED <<group_games, ops, queueVars, ghostVars>>

\* shoot resumed after _ban_user when text_manager.get_text raises on the
\* texts of a Hit: failure reply, the end-of-game check is skipped
HitTextError(r, muteOk) ==
    /\ r.kind = "fire" /\ r.via = "cmd" /\ r.pc = "mute"
    /\ NoCreate
    /\ ops' = DelOp(ops, r)
    /\ games' = Collect(games, group_games, DelOp(ops, r))
    /\ Say(r.g, "fire", "cmd", "Failed")
    /\ UNCHANGED <<group_games, timeout_tasks, tasks, queueVars, ghostVars, misfireVars,
                   terminated, banVars>>

\* ------------------------------------------------- revolver_tools.py (tool)
\* StartRevolverGameTool.run: stores a game without arming a timeout; the
\* text lookup that follows fails, so the caller gets the failure string
StartToolRun(g, c, by, L) ==
    /\ UNCHANGED <<timeout_tasks, tasks, queueVars, ops, noticed, exhausted, misfireVars, terminated, banVars>>
    /\ IF group_games[g] # NoGame
       THEN /\ Say(g, "load", "tool", "AlreadyInProgress")
            /\ NoCreate
            /\ UNCHANGED <<group_games, games, endSignals>>
       ELSE /\ Len(games) < MaxGames
            /\ \E n \in (IF parse_bullet_count(c) = NoCount
                         THEN get_random_bullet_count ELSE {c}) :
                 \E ch \in L : /\ ch \in create_chambers(n)
                               /\ games' = Append(games, [chambers |-> ch, current |-> 0])
                               /\ created' = Creation(n, c, IF parse_bullet_count(c) = NoCount
                                                             THEN "none" ELSE by)
            /\ group_games' = [group_games EXCEPT ![g] = Len(games) + 1]
            /\ endSignals' = Append(endSignals, 0)
            /\ Say(g, "load", "tool", "Failed")

InitState ==
    /\ group_games = [g \in Groups |-> NoGame]
    /\ games = <<>>
    /\ timeout_tasks = [g \in Groups |-> NoTask]
    /\ tasks = <<>>
    /\ ai_trigger_queue = [k \in Keys |-> NoAction]
    /\ ops = EmptyBag
    /\ replied = [k \in Keys |-> FALSE]
    /\ enqueued = [k \in Keys |-> 0]
    /\ lastReply = [g \in Groups |-> NoReply]
    /\ lastExec = [k \in Keys |-> NoAction]
    /\ dispatched = [k \in Keys |-> 0]
    /\ lastEnq = [k \in Keys |-> NoAction]
    /\ overwritten = [k \in Keys |-> NoAction]
    /\ noticed = {}
    /\ exhausted = {}
    /\ endSignals = <<>>
    /\ created = NoCreation
    /\ group_misfire = [g \in Groups |-> Unset]
    /\ terminated = FALSE

\* options with a single mute duration
OneDuration == min_ban = DEFAULT_MIN_BAN /\ max_ban = DEFAULT_MIN_BAN

\* the plugin with the option misfire_enabled_by_default left at False
Init == InitState /\ default_misfire = FALSE /\ OneDuration

\* the plugin with either value of the option
InitMisfire == InitState /\ default_misfire \in BOOLEAN /\ OneDuration

\* the plugin with any pair of duration limits min_ban <= max_ban
InitBan ==
    /\ InitState
    /\ default_misfire = TRUE
    /\ min_ban \in 0 .. MaxBanSeconds
    /\ max_ban \in min_ban .. MaxBanSeconds

\* the load command in the groups G and its continuation
LoadStepIn(G, L) ==
    \/ \E g \in G, c \in CountInputs, sa \in BOOLEAN : LoadStart(g, c, sa, L)
    \/ \E r \in BagToSet(ops), b \in BOOLEAN : LoadAdmin(r, b, L)

LoadStep(L) == LoadStepIn(OneGroup, L)

\* the fire and status commands in the groups G
PlayStepIn(G) ==
    \/ \E g \in G : FireStart(g)
    \/ \E g \in G : Status(g)

PlayStep == PlayStepIn(OneGroup)

\* continuations of a fire (command or AI method)
FireResume ==
    \/ \E r \in BagToSet(ops), res \in LookupResults : FireLookup1(r, res)
    \/ \E r \in BagToSet(ops), res \in LookupResults : FireLookup2(r, res)
    \/ \E r \in BagToSet(ops), b \in BOOLEAN : FireMute(r, b)
    \/ \E r \in BagToSet(ops), b \in BOOLEAN : FireCheck(r, b)

\* continuations of a fire (command or AI method) and the timeout tasks
FireStep ==
    \/ \E r \in BagToSet(ops), res \in LookupResults : FireLookup1(r, res)
    \/ \E r \in BagToSet(ops), res \in LookupResults : FireLookup2(r, res)
    \/ \E r \in BagToSet(ops), b \in BOOLEAN : FireMute(r, b)
    \/ \E r \in BagToSet(ops), b \in BOOLEAN : FireCheck(r, b)
    \/ \E t \in DOMAIN tasks : TimeoutFire(t)
    \/ \E t \in DOMAIN tasks, b \in BOOLEAN : TimeoutNotify(t, b)

\* the AI trigger queue, the two drain hooks and the AI methods they dispatch
QueueStep(L) ==
    \/ \E k \in Keys, a \in Actions : Enqueue(k, a)
    \/ \E k \in Keys : HostReply(k)
    \/ \E k \in Keys : OnDecoratingResult(k)
    \/ \E r \in BagToSet(ops), b \in BOOLEAN : HookWake(r, b, L)
    \/ \E k \in Keys, b \in BOOLEAN : OnMessageSent(k, b, L)
    \/ \E r \in BagToSet(ops), b \in BOOLEAN : FireSend(r, b)

NextGame == LoadStep(Layouts(MaxLivePos)) \/ PlayStep \/ FireStep
NextQueue == QueueStep(Layouts(MaxLivePos)) \/ FireStep
Next == NextGame \/ QueueStep(Layouts(MaxLivePos))

\* the first-generation start tool of tools/revolver_tools.py
ToolStep(L) ==
    \E g \in OneGroup, c \in CountInputs, by \in {"admin", "member"} : StartToolRun(g, c, by, L)

NextTools == ToolStep(Layouts(MaxLivePos)) \/ PlayStep \/ FireStep

\* the plugin as main.py registers it: commands, hooks and the trigger tool
Spec == Init /\ [][Next]_vars
\* the command surface alone: no trigger is ever enqueued
SpecGame == Init /\ [][NextGame]_vars
\* the intent-trigger surface alone: every game operation comes from a drain
SpecQueue == Init /\ [][NextQueue]_vars
\* games started by the start tool of tools/revolver_tools.py, played by command
SpecTools == Init /\ [][NextTools]_vars

\* every chamber list random.sample can produce, for any count
AllLayouts == [Pos -> BOOLEAN]

\* the timeout tasks alone
TimeoutStep ==
    \/ \E t \in DOMAIN tasks : TimeoutFire(t)
    \/ \E t \in DOMAIN tasks, b \in BOOLEAN : TimeoutNotify(t, b)

\* loading with the unrestricted random source; games end by timeout only
NextLoad == LoadStep(AllLayouts) \/ TimeoutStep
SpecLoad == Init /\ [][NextLoad]_vars

\* two draws whose last chamber is live, so that the game lasts six fires:
\* rounds in chambers 0, 2 and 5, and a single round in chamber 5
LongLayouts == {[i \in Pos |-> i \in {0, 2, 5}], [i \in Pos |-> i = CHAMBER_COUNT - 1]}

\* games played to the end of the cylinder by the fire command
NextLong ==
    \/ LoadStep(LongLayouts)
    \/ \E g \in OneGroup : FireLong(g)
    \/ FireStep
SpecLong == Init /\ [][NextLong]_vars

\* the draw for a bullet count of 6: every chamber live
FullLayouts == {[i \in Pos |-> TRUE]}

\* games loaded with six rounds, played by the fire command
NextFull ==
    \/ LoadStep(FullLayouts)
    \/ \E g \in OneGroup : FireLong(g)
    \/ FireStep
SpecFull == Init /\ [][NextFull]_vars

\* the draws that put a round under the cursor of a new game, so that its
\* first fire is a Hit
PenaltyLayouts == {[i \in Pos |-> i = 0], [i \in Pos |-> i \in {0, 1}]}

\* the fire command and its penalty steps on such games
NextPenalty ==
    \/ LoadStep(PenaltyLayouts)
    \/ \E g \in OneGroup : FireStart(g)
    \/ FireStep
SpecPenalty == Init /\ [][NextPenalty]_vars

\* one round, under the cursor of a new game
PairLayouts == {[i \in Pos |-> i = 0]}

\* two groups played side by side by command (starts without a count), each
\* with its timeouts
NextPair ==
    \/ \E g \in Groups : LoadStart(g, Absent, FALSE, PairLayouts)
    \/ PlayStepIn(Groups)
    \/ FireStep
SpecPair == Init /\ [][NextPair]_vars

\* one message per key, handled by the host in its order: decorating hook,
\* send, post-send hook; the trigger tool may register at any time
DrainLayouts == {[i \in Pos |-> i = 0]}
NextDrain ==
    \/ \E k \in Keys, a \in Actions : Enqueue(k, a)
    \/ \E k \in Keys : DecorateBeforeSend(k)
    \/ \E r \in BagToSet(ops), b \in BOOLEAN : HookWake(r, b, DrainLayouts)
    \/ \E k \in Keys, b \in BOOLEAN : HostSendThenHook(k, b, DrainLayouts)
    \/ \E r \in BagToSet(ops), b \in BOOLEAN : FireSend(r, b)
    \/ FireStep

\* the event loop resumes every sleeping hook and every awaited call, and the
\* host handles every message; nothing obliges the tool to register
DrainFairness ==
    /\ WF_vars(\E k \in Keys : DecorateBeforeSend(k))
    /\ WF_vars(\E r \in BagToSet(ops), b \in BOOLEAN : HookWake(r, b, DrainLayouts))
    /\ WF_vars(\E k \in Keys, b \in BOOLEAN : HostSendThenHook(k, b, DrainLayouts))
    /\ WF_vars(\E r \in BagToSet(ops), b \in BOOLEAN : FireSend(r, b))
    /\ WF_vars(FireStep)
SpecDrain == Init /\ [][NextDrain]_vars /\ DrainFairness

\* the misfire toggle commands and ordinary chat messages in the groups G
MisfireStep(G) ==
    \/ \E g \in G, on \in BOOLEAN, b \in BOOLEAN : SetMisfire(g, on, b)
    \/ \E g \in G, draw \in BOOLEAN : OnGroupMessage(g, draw)
    \/ \E r \in BagToSet(ops), res \in LookupResults : MisfireLookup1(r, res)
    \/ \E r \in BagToSet(ops), res \in LookupResults : MisfireLookup2(r, res)
    \/ \E r \in BagToSet(ops), b \in BOOLEAN : MisfireMute(r, b)

\* one round, in the chamber after the one under the cursor of a new game
MisfireLayouts == {[i \in Pos |-> i = 1]}

\* a game (its timeouts armed, none expiring), chat messages and misfire
\* toggles in one group
NextMisfire ==
    \/ \E g \in OneGroup : LoadStart(g, Absent, FALSE, MisfireLayouts)
    \/ \E g \in OneGroup : FireStart(g)
    \/ FireResume
    \/ MisfireStep(OneGroup)
SpecMisfire == InitMisfire /\ [][NextMisfire]_vars

\* one round, in the last chamber: the fires of a new game are misses
TeardownLayouts == {[i \in Pos |-> i = CHAMBER_COUNT - 1]}

\* what the host delivers to the loaded plugin: load and fire commands, a
\* trigger registered by the tool, the decorating hook of a message
Deliveries ==
    \/ \E g \in OneGroup, c \in {Absent, 1}, sa \in BOOLEAN :
           LoadStart(g, c, sa, TeardownLayouts)
    \/ \E g \in OneGroup : FireStart(g)
    \/ \E k \in Keys : Enqueue(k, "join")
    \/ \E k \in Keys : OnDecoratingResult(k)

\* the handlers and tasks the event loop resumes, loaded or not
Resumptions ==
    \/ \E r \in BagToSet(ops), b \in BOOLEAN : LoadAdmin(r, b, TeardownLayouts)
    \/ \E r \in BagToSet(ops), b \in BOOLEAN : HookWake(r, b, TeardownLayouts)
    \/ \E r \in BagToSet(ops), b \in BOOLEAN : FireSend(r, b)
    \/ \E r \in BagToSet(ops), b \in BOOLEAN : FireCheck(r, b)
    \/ TimeoutStep

\* the plugin until and after its unloading: once terminate has run the host
\* delivers nothing more to it, what was suspended is still resumed
NextTeardown ==
    \/ ~terminated /\ Deliveries
    \/ Terminate
    \/ Resumptions
SpecTeardown == Init /\ [][NextTeardown]_vars

\* one round, under the cursor of a new game: its first fire is a Hit
BanLayouts == {[i \in Pos |-> i = 0]}

\* the two callers of _ban_user: a Hit of the fire command and a misfire
NextBan ==
    \/ \E g \in OneGroup : LoadStart(g, Absent, FALSE, BanLayouts)
    \/ \E g \in OneGroup : FireStart(g)
    \/ FireResume
    \/ MisfireStep(OneGroup)
SpecBan == InitBan /\ [][NextBan]_vars

\* one round, in the last chamber: five misses, then a Hit
WrapLayouts == {[i \in Pos |-> i = CHAMBER_COUNT - 1]}

\* the fire command with room for a seventh fire on a game
FireWrap(g) ==
    /\ FireWithin(g, "cmd", TRUE, ops, MaxLongTasks + 1, MaxInFlight)
    /\ UNCHANGED queueVars

\* a game fired at until its round is hit, and fired at again while that
\* Hit is suspended
NextWrap ==
    \/ \E g \in OneGroup : LoadStart(g, Absent, FALSE, WrapLayouts)
    \/ \E g \in OneGroup : FireWrap(g)
    \/ FireResume
SpecWrap == Init /\ [][NextWrap]_vars

\* no fire is in flight in any group
NoFireInFlight == \A r \in BagToSet(ops) : r.kind # "fire"

\* one round, under the cursor of a new game
SeqLayouts == {[i \in Pos |-> i = 0]}

\* fires run one at a time: a fire, by command or by a drained trigger,
\* starts only when the one before it has ended
NextSeq ==
    \/ \E g \in OneGroup : LoadStart(g, Absent, FALSE, SeqLayouts)
    \/ NoFireInFlight /\ \E g \in OneGroup : FireStart(g)
    \/ \E k \in Keys : Enqueue(k, "join")
    \/ \E k \in Keys : HostReply(k)
    \/ NoFireInFlight /\ \E k \in Keys, b \in BOOLEAN : OnMessageSent(k, b, SeqLayouts)
    \/ \E r \in BagToSet(ops), b \in BOOLEAN : FireSend(r, b)
    \/ FireStep
SpecSeq == Init /\ [][NextSeq]_vars

\* one round, in the second chamber: a Miss, then a Hit
TextLayouts == {[i \in Pos |-> i = 1]}

\* the load and fire commands with reply texts that may fail to format
NextText ==
    \/ \E g \in OneGroup : LoadStart(g, Absent, FALSE, TextLayouts)
    \/ \E g \in OneGroup : LoadTextError(g, TextLayouts)
    \/ \E g \in OneGroup : FireStart(g)
    \/ \E g \in OneGroup : FireTextError(g)
    \/ \E r \in BagToSet(ops), b \in BOOLEAN : HitTextError(r, b)
    \/ FireStep
SpecText == Init /\ [][NextText]_vars

\* ================================================================== claims
Live(id) == Sum(games[id].chambers)
Armed(t) == tasks[t].state = "sleeping"
Quiescent == ops = EmptyBag /\ \A t \in DOMAIN tasks : tasks[t].state # "sending"
EndOutcomes(id) == endSignals[id] + (IF id \in noticed THEN 1 ELSE 0)

\* C1: every Game in the registry has at least one live chamber, in every
\* reachable state, also while a fire is suspended (the Game is removed in the
\* step that clears its last live chamber).
C1_RegisteredGameIsLive ==
    \A g \in Groups : group_games[g] # NoGame => Live(group_games[g]) >= 1

\* C2: no fire ends in the generic failure reply because another operation
\* removed the Game first, and no Game gets more than one end-of-game outcome
\* (game-ended signal or timeout notice).
C2_SingleRemover ==
    /\ \A g \in Groups : lastReply[g] # Reply("fire", "cmd", "Failed")
    /\ \A id \in DOMAIN games : EndOutcomes(id) <= 1

\* C3: a start never replaces an existing Game: while a Game is registered for
\* a group, a step either keeps that Game registered or removes it, it never
\* puts another Game in its place.
C3_StartNeverReplaces ==
    [][\A g \in Groups :
          group_games[g] # NoGame =>
              group_games'[g] \in {group_games[g], NoGame}]_vars

\* C4: for one enqueue under a key the queued action is dispatched at most
\* once, whichever of the two drain sites runs first.
C4_DispatchedAtMostOnce == \A k \in Keys : dispatched[k] <= 1

\* C4 witness: the backup drain has dispatched the action while the primary
\* drain is still asleep and will find the key gone.
C4_Witness ==
    \E k \in Keys :
        /\ dispatched[k] = 1
        /\ replied[k]
        /\ ai_trigger_queue[k] = NoAction
        /\ \E r \in BagToSet(ops) : r.kind = "hook" /\ r.k = k

\* C5: once a key has been drained, what was executed is the action of the
\* most recent enqueue (never one it overwrote) and the key has no entry left.
C5_DrainExecutesLatest ==
    \A k \in Keys :
        dispatched[k] >= 1 =>
            /\ lastExec[k] = lastEnq[k]
            /\ ai_trigger_queue[k] = NoAction

\* C5 witness: enqueue(key, A), enqueue(key, B) with A # B, then one drain.
C5_Witness ==
    \E k \in Keys :
        /\ dispatched[k] = 1
        /\ overwritten[k] # NoAction
        /\ overwritten[k] # lastEnq[k]
        /\ lastExec[k] = lastEnq[k]

\* C6: a queued action is dispatched only after the classifier's own reply to
\* the message has been emitted.
C6_DispatchAfterReply ==
    [][\A k \in Keys : dispatched'[k] > dispatched[k] => replied[k]]_vars

\* C7: at most one armed timeout exists per group, and it is the one the
\* table holds: every earlier task of the group is cancelled or has expired.
C7_OneArmedTimeout ==
    \A t \in DOMAIN tasks : Armed(t) => timeout_tasks[tasks[t].g] = t

\* C7 witness: two successive arms, the first task cancelled, the second armed.
C7_Witness ==
    \E t, u \in DOMAIN tasks :
        /\ t < u
        /\ tasks[t].g = tasks[u].g
        /\ tasks[t].state = "cancelled"
        /\ Armed(u)

\* C8: a Game that ended by exhaustion (its last live chamber was fired)
\* never gets a timeout notice.
C8_NoNoticeAfterExhaustion == noticed \cap exhausted = {}

\* C9: no Game exists without an armed timeout, so every Game is eventually
\* removed by its timeout if nothing else happens.
C9_GameHasArmedTimeout ==
    \A g \in Groups :
        group_games[g] # NoGame =>
            /\ timeout_tasks[g] # NoTask
            /\ Armed(timeout_tasks[g])

\* C10: whenever no operation is mid-flight, the timeout table holds a handle
\* for a group if and only if the registry holds a Game for it.
C10_HandleIffGame ==
    Quiescent =>
        \A g \in Groups : (timeout_tasks[g] # NoTask) <=> (group_games[g] # NoGame)

\* the Game the latest step created
Fresh == games[Len(games)]

\* C11: every successful start creates a Game with exactly 6 chambers, cursor
\* 0 and exactly bulletCount live chambers, bulletCount being the count an
\* admin supplied or a drawn value, always in [1,6]; so a new Game has at
\* least one live chamber.
C11_FreshGame ==
    created # NoCreation =>
        /\ \E g \in Groups : group_games[g] = Len(games)
        /\ DOMAIN Fresh.chambers = Pos
        /\ Fresh.current = 0
        /\ created.n \in 1 .. CHAMBER_COUNT
        /\ Sum(Fresh.chambers) = created.n
        /\ created.by = "admin" => created.n = created.arg

\* C11 witness: an admin's count of 1 loaded into the last chamber.
C11_Witness ==
    /\ created = Creation(1, 1, "admin")
    /\ Fresh.chambers = [i \in Pos |-> i = CHAMBER_COUNT - 1]

\* no suspended handler holds game id any more
Settled(id) == \A r \in BagToSet(ops) : r.game # id

\* C12: the fire after which no live chamber remains reports game-ended and
\* removes the Game: once the fires on a Game whose last live chamber was
\* fired have completed, its game-ended signal has been given.
C12_ExhaustingFireEndsGame ==
    \A id \in exhausted : Settled(id) => endSignals[id] = 1

\* C13: the cursor stays in [0,6); a fire on an existing Game advances it by
\* exactly one modulo 6, hit or miss, and no other step (the penalty steps,
\* the reply, status, the timeout) moves it.
C13_CursorAdvances ==
    [][\A id \in DOMAIN games :
          id \in Referenced(group_games', ops') =>
              /\ games'[id].current \in Pos
              /\ games'[id].current =
                     IF FireOps(ops', id) > FireOps(ops, id)
                     THEN (games[id].current + 1) % CHAMBER_COUNT
                     ELSE games[id].current]_vars

\* C13 witness: the sixth fire on a Game has read the last chamber and the
\* cursor has wrapped around to 0.
C13_Witness ==
    \E id \in exhausted :
        /\ id \in Referenced(group_games, ops)
        /\ games[id].current = 0

C15_NoGameAfterExhaustion ==
    \A g \in Groups :
        (group_games[g] # NoGame /\ group_games[g] \in exhausted) =>
            ~Settled(group_games[g])

\* C16: a start with an explicit bullet count by a requester who is not an
\* admin creates no Game, through every entry point.
C16_ExplicitCountNeedsAdmin == created.by # "member"

\* C17: a load request whose supplied count is outside [1,6] creates no Game.
C17_OutOfRangeCreatesNothing ==
    created # NoCreation =>
        (created.arg = Absent \/ created.arg \in 1 .. CHAMBER_COUNT)

\* a fire on group g is suspended in bag b
FireInFlight(b, g) == \E r \in BagToSet(b) : r.kind = "fire" /\ r.g = g

\* C18: a fire on a group with no Game replies NoActiveGame and changes
\* nothing: no Game is created, no timeout is armed or cancelled, and no role
\* lookup or mute is started.
C18_FireWithoutGame ==
    [][\A g \in Groups :
          /\ lastReply'[g] = Reply("fire", "cmd", "NoActiveGame") =>
                 /\ group_games[g] = NoGame
                 /\ UNCHANGED <<gameVars, ghostVars, ops>>
          /\ (group_games[g] = NoGame /\ ~FireInFlight(ops, g)) =>
                 /\ lastReply'[g].op = "fire" => lastReply'[g].msg = "NoActiveGame"
                 /\ ~FireInFlight(ops', g)]_vars

\* C18 witness: a fire has just been answered NoActiveGame in a group whose
\* Game timed out earlier; the finished timeout is left as it was.
C18_Witness ==
    \E g \in Groups :
        /\ lastReply[g] = Reply("fire", "cmd", "NoActiveGame")
        /\ timeout_tasks[g] # NoTask
        /\ tasks[timeout_tasks[g]].state = "done"

\* C19: status is read-only: a step that answers a status command leaves the
\* registry, the chambers, the cursor, the timeout table and the timeout tasks
\* unchanged, and when a Game exists the report shows the number of live
\* chambers and whether the chamber under the cursor is live.
C19_StatusReadOnly ==
    [][\A g \in Groups :
          (lastReply'[g].op = "status" /\ lastReply'[g].via = "cmd") =>
              /\ UNCHANGED <<gameVars, ghostVars, ops>>
              /\ IF group_games[g] = NoGame
                 THEN lastReply'[g].msg = "NoActiveGame"
                 ELSE LET gm == games[group_games[g]] IN
                      /\ lastReply'[g].msg = "Status"
                      /\ lastReply'[g].remaining = Cardinality({i \in Pos : gm.chambers[i]})
                      /\ lastReply'[g].live = gm.chambers[gm.current]]_vars

\* C19 witness: a status report on a Game with a round left, an empty chamber
\* under the cursor and its timeout still armed.
C19_Witness ==
    \E g \in Groups :
        /\ lastReply[g].op = "status"
        /\ lastReply[g].remaining >= 1
        /\ ~lastReply[g].live
        /\ Armed(timeout_tasks[g])

\* C20: the mute call is never issued for a target whose role, as answered by
\* the lookup made just before the call, is owner or admin.
C20_NoMuteForAdmin ==
    \A r \in BagToSet(ops) : r.pc = "mute" => r.role \notin {"owner", "admin"}

\* C20 witness: a mute call is in flight for a target the lookup just before
\* it reported as an ordinary member.
C20_Witness ==
    \E r \in BagToSet(ops) : r.pc = "mute" /\ r.role = "member"

\* the handler of fire r once the outcome text msg of a Hit has been handed on:
\* the command is at the end-of-game check, the AI method at its send
AfterPenalty(r, msg) ==
    IF r.via = "cmd"
    THEN [r EXCEPT !.pc = "check", !.role = "none", !.duration = 0]
    ELSE [r EXCEPT !.pc = "send", !.msg = msg, !.role = "none", !.duration = 0]

\* C21: when the mute call of a Hit raises, the fire outcome stands: the
\* registry, the chambers (the fired one stays cleared), the cursor and the
\* timeouts are left as they are, and the handler goes on to the same
\* end-of-game check as after a successful mute; only the penalty text of the
\* reply differs.
C21_MuteErrorKeepsOutcome ==
    \A r \in BagToSet(ops) :
        (r.kind = "fire" /\ r.pc = "mute") =>
            \A ok \in BOOLEAN :
                LET msg == IF ok THEN "HitBanned" ELSE "HitBanFailed" IN
                ENABLED (/\ FireMute(r, ok)
                         /\ UNCHANGED <<gameVars, ghostVars>>
                         /\ ops' = AddOp(DelOp(ops, r), AfterPenalty(r, msg))
                         /\ r.via = "cmd" => lastReply'[r.g] = Reply("fire", "cmd", msg))

\* C21 witness: the mute call after the Hit on the last live chamber has just
\* failed; the chambers are all empty and the end-of-game check is next.
C21_Witness ==
    \E r \in BagToSet(ops) :
        /\ r.pc = "check"
        /\ r.game \in exhausted
        /\ Sum(games[r.game].chambers) = 0
        /\ group_games[r.g] = r.game
        /\ lastReply[r.g] = Reply("fire", "cmd", "HitBanFailed")

\* C22: when the role lookup raises, the target is treated as bannable: after
\* the handler's lookup the fire goes on to the ban step, after the ban step's
\* own lookup the mute call is issued, and that fire then completes like any
\* other (reply, then end-of-game check); no step drops it or touches the Game.
C22_LookupErrorIsBannable ==
    \A r \in BagToSet(ops) :
        /\ r.pc = "lookup1" =>
               ENABLED (/\ FireLookup1(r, "error")
                        /\ UNCHANGED <<gameVars, ghostVars>>
                        /\ ops' = AddOp(DelOp(ops, r), [r EXCEPT !.pc = "lookup2"]))
        /\ r.pc = "lookup2" =>
               ENABLED (/\ FireLookup2(r, "error")
                        /\ UNCHANGED <<gameVars, ghostVars>>
                        /\ \E d \in randint(min_ban, max_ban) :
                               ops' = AddOp(DelOp(ops, r),
                                            [r EXCEPT !.pc = "mute", !.role = "error",
                                                      !.duration = d]))
        /\ (r.pc = "mute" /\ r.role = "error") =>
               \A ok \in BOOLEAN :
                   ENABLED (/\ FireMute(r, ok)
                            /\ UNCHANGED <<gameVars, ghostVars>>
                            /\ \E s \in BagToSet(ops') :
                                  s.game = r.game /\ s.pc \in {"check", "send"})

\* C22 witness: the lookup before the mute raised and the mute call has been
\* issued, for the Hit that emptied the Game.
C22_Witness ==
    \E r \in BagToSet(ops) :
        /\ r.pc = "mute"
        /\ r.role = "error"
        /\ r.game \in exhausted
        /\ group_games[r.g] = r.game

\* C23: on a Hit the penalty step reports Immune for a target the lookup finds
\* to be owner or admin at call time, the duration for a mute issued
\* successfully, and DispatchFailed if and only if the mute call raised.
C23_PenaltyOutcome ==
    \A r \in BagToSet(ops) :
        r.via = "cmd" =>
            /\ r.pc \in {"lookup1", "lookup2"} =>
                   \A res \in {"owner", "admin"} :
                       ENABLED (/\ FireLookup1(r, res) \/ FireLookup2(r, res)
                                /\ lastReply'[r.g] = Reply("fire", "cmd", "HitImmune"))
            /\ r.pc = "mute" =>
                   /\ ENABLED (/\ FireMute(r, TRUE)
                               /\ lastReply'[r.g] = Reply("fire", "cmd", "HitBanned"))
                   /\ ENABLED (/\ FireMute(r, FALSE)
                               /\ lastReply'[r.g] = Reply("fire", "cmd", "HitBanFailed"))

\* what the plugin holds for group h: its registry entry, the chambers and
\* cursor of its Game, its timeout handle and its timeout tasks
GroupState(h) ==
    <<group_games[h],
      IF group_games[h] # NoGame THEN games[group_games[h]] ELSE DeadGame,
      timeout_tasks[h],
      [t \in {u \in DOMAIN tasks : tasks[u].g = h} |-> tasks[t]]>>

\* C24: operations on different groups are independent: every step (start,
\* fire, status, timeout expiry, deferred action, also one that ends in an
\* error reply or a swallowed timeout-callback error) works on one group and
\* leaves the Game, chambers, cursor and timeout of every other group as
\* they are; a step that replies in a group changes at most that group.
C24_GroupsIndependent ==
    [][/\ \E g \in Groups : \A h \in Groups \ {g} : GroupState(h)' = GroupState(h)
       /\ \A g \in Groups :
              lastReply'[g] # NoReply =>
                  \A h \in Groups \ {g} : GroupState(h)' = GroupState(h)]_vars

\* C24 witness: a fire in group 1 has just ended in the generic failure
\* reply while group 2 has a Game with its round and its timeout armed.
C24_Witness ==
    /\ lastReply[1].msg = "Failed"
    /\ group_games[2] # NoGame
    /\ Live(group_games[2]) = 1
    /\ Armed(timeout_tasks[2])

\* C25: a join executed through a drained trigger behaves like the fire
\* command: once the outcome of the fire has been handed to the chat, the AI
\* method is where the command is after its reply, at the end-of-game check
\* on the same Game, with the registry, chambers, cursor and timeouts as the
\* fire left them, whatever the send of the outcome did.
C25_TriggerLikeCommand ==
    \A r \in BagToSet(ops) :
        (r.kind = "fire" /\ r.via = "ai" /\ r.pc = "send") =>
            \A ok \in BOOLEAN :
                ENABLED (/\ FireSend(r, ok)
                         /\ UNCHANGED gameVars
                         /\ ops' = AddOp(DelOp(ops, r),
                                         [r EXCEPT !.pc = "check", !.msg = "none"]))

\* the number of suspended fires of group g in bag b
FireCount(b, g) ==
    LET S == {r \in BagToSet(b) : r.kind = "fire" /\ r.g = g}
    IN  BagCardinality([r \in S |-> b[r]])

\* the step replaces the timeout of group g by a freshly armed one: a new
\* task that starts its full sleep becomes the handle of g, and no earlier
\* task of g is left running
Rearmed(g) ==
    /\ Len(tasks') = Len(tasks) + 1
    /\ tasks'[Len(tasks')] = NewTask(g)
    /\ timeout_tasks'[g] = Len(tasks')
    /\ \A t \in DOMAIN tasks :
           tasks[t].g = g => tasks'[t].state \notin {"sleeping", "sending"}

\* the step is a successful load in group g / a fire on the Game of group g
LoadedIn(g) == created' # NoCreation /\ group_games'[g] = Len(games')
FiredIn(g) == FireCount(ops', g) > FireCount(ops, g)

\* C26: every successful load and every fire on an existing Game replaces
\* the group's timeout by a freshly armed one, and no other step arms one;
\* status, a rejected start and a fire with no Game leave the timeouts
\* untouched; and the timeout that removes a Game is the group's current
\* handle, the one armed by the most recent load or fire.
C26_RearmOnLoadAndFire ==
    [][\A g \in Groups :
          /\ (LoadedIn(g) \/ FiredIn(g)) => Rearmed(g)
          /\ ~(LoadedIn(g) \/ FiredIn(g)) =>
                 /\ \A t \in DOMAIN tasks' : t \in DOMAIN tasks \/ tasks'[t].g # g
                 /\ timeout_tasks'[g] \in {timeout_tasks[g], NoTask}
          /\ lastReply'[g].msg \in {"Status", "NoActiveGame", "AlreadyInProgress",
                                    "PermissionDenied"} =>
                 UNCHANGED <<timeout_tasks, tasks>>
          /\ \A t \in DOMAIN tasks :
                 (tasks[t].g = g /\ tasks[t].state = "sleeping"
                                /\ tasks'[t].state = "sending") =>
                     timeout_tasks[g] = t]_vars

\* C27: no deferred trigger stays pending for ever: whenever a key has an
\* entry in the queue, the entry is eventually removed, whatever the order of
\* the enqueue and the host's hooks for that key.
C27_TriggerEventuallyRemoved ==
    \A k \in Keys : (ai_trigger_queue[k] # NoAction) ~> (ai_trigger_queue[k] = NoAction)

\* C28: within one Game the live chambers only shrink: no step sets a
\* chamber of an existing Game live, a fire clears at most the chamber under
\* the cursor (a Miss changes no chamber), no other step changes a chamber of
\* a Game that is still in use, and a Game with live chambers appears only
\* through a successful start.
C28_LiveChambersShrink ==
    [][/\ \A id \in DOMAIN games :
             /\ \A i \in Pos : games'[id].chambers[i] => games[id].chambers[i]
             /\ id \in Referenced(group_games', ops') =>
                    games'[id].chambers =
                        IF FireOps(ops', id) > FireOps(ops, id)
                        THEN [games[id].chambers EXCEPT ![games[id].current] = FALSE]
                        ELSE games[id].chambers
       /\ \A id \in DOMAIN games' \ DOMAIN games :
             created' # NoCreation /\ id = Len(games')]_vars

\* C28 witness: in a Game loaded with rounds in chambers 0, 2 and 5 the first
\* fire was a Hit and the second, just answered, a Miss: chamber 0 is empty,
\* the two other rounds are still there.
C28_Witness ==
    \E g \in Groups :
        /\ lastReply[g] = Reply("fire", "cmd", "Miss")
        /\ group_games[g] # NoGame
        /\ games[group_games[g]].current = 2
        /\ games[group_games[g]].chambers = [i \in Pos |-> i \in {2, 5}]

\* the number of suspended misfire handlers of group g in bag b
MisfireCount(b, g) ==
    LET S == {r \in BagToSet(b) : r.kind = "misfire" /\ r.g = g}
    IN  BagCardinality([r \in S |-> b[r]])

\* the suspended handlers in bag b other than the misfire handlers
GameOps(b) == {r \in BagToSet(b) : r.kind # "misfire"}

\* C29: handling an ordinary chat message never changes the registry, the
\* chambers, the cursor or the timeouts, neither when the misfire triggers nor
\* in its penalty steps and its reply; a misfire triggers only in a group
\* whose toggle is enabled, and with the toggle enabled a successful trial
\* triggers it whatever the state of the Game.
C29_MisfireLeavesGame ==
    [][\A g \in Groups :
          /\ (MisfireCount(ops', g) # MisfireCount(ops, g) \/ lastReply'[g].op = "misfire") =>
                 /\ UNCHANGED <<gameVars, ghostVars, misfireVars>>
                 /\ \A r \in GameOps(ops) \cup GameOps(ops') : ops'[r] = ops[r]
          /\ MisfireCount(ops', g) > MisfireCount(ops, g) => group_misfire[g] = "on"
          /\ (group_misfire[g] = "on" /\ InFlight < MaxInFlight) =>
                 ENABLED (/\ OnGroupMessage(g, TRUE)
                          /\ MisfireCount(ops', g) > MisfireCount(ops, g))]_vars

\* C29 witness: a misfire has just muted its target while the Game of the
\* group, fired at once, is registered with its timeout armed and a fire is
\* at its end-of-game check.
C29_Witness ==
    \E g \in Groups :
        /\ lastReply[g] = Reply("misfire", "cmd", "MisfireBanned")
        /\ group_games[g] # NoGame
        /\ games[group_games[g]].current = 1
        /\ Armed(timeout_tasks[g])
        /\ \E r \in BagToSet(ops) : r.kind = "fire" /\ r.pc = "check"

\* C30: for a group whose toggle was never set, the misfire evaluation uses
\* the configured default from the first interaction on, also when that
\* interaction is an ordinary chat message: in a group nothing has touched
\* yet, a successful trial triggers the misfire exactly if the default is on.
C30_DefaultFromFirstTouch ==
    \A g \in Groups :
        (group_misfire[g] = Unset /\ InFlight < MaxInFlight) =>
            (default_misfire <=>
                 ENABLED (/\ OnGroupMessage(g, TRUE)
                          /\ MisfireCount(ops', g) > MisfireCount(ops, g)))

\* a timeout task that is over: cancelled, or run to its end
Finished(t) == tasks[t].state \in {"cancelled", "done"}

\* C31: when teardown completes the registry, the timeout table and the
\* deferred queue are empty and every timeout armed before is cancelled (or
\* already over); afterwards such a timeout never deletes a Game nor sends a
\* notice, and a primary drain that was asleep dispatches nothing and
\* touches no Game when it wakes.
C31_TeardownClearsAll ==
    [][/\ (~terminated /\ terminated') =>
              /\ group_games' = [g \in Groups |-> NoGame]
              /\ timeout_tasks' = [g \in Groups |-> NoTask]
              /\ ai_trigger_queue' = [k \in Keys |-> NoAction]
              /\ \A t \in DOMAIN tasks' : Finished(t)'
       /\ \A t \in DOMAIN tasks :
              Finished(t) =>
                  /\ tasks'[t] = tasks[t]
                  /\ (noticed' # noticed \/ \E g \in Groups :
                          group_games[g] # NoGame /\ group_games'[g] = NoGame
                              /\ FireCount(ops', g) = FireCount(ops, g)) =>
                         \E u \in DOMAIN tasks : ~Finished(u) /\ tasks'[u] # tasks[u]
       /\ terminated =>
              \A r \in BagToSet(ops) :
                  (r.kind = "hook" /\ CopiesIn(r, ops') < CopiesIn(r, ops)) =>
                      UNCHANGED <<gameVars, dispatched, lastExec>>]_vars

\* C31 witness: teardown has cancelled the only timeout ever armed, that of a
\* Game still in play, while a primary drain sleeps on a trigger that was
\* registered and never dispatched.
C31_Witness ==
    /\ terminated
    /\ Len(tasks) = 1
    /\ tasks[1].state = "cancelled"
    /\ exhausted = {}
    /\ \E r \in BagToSet(ops) : r.kind = "hook" /\ enqueued[r.k] = 1 /\ dispatched[r.k] = 0

\* C32: whenever the mute call is issued its duration is an integer d with
\* min_ban <= d <= max_ban, for every configured pair min_ban <= max_ban; with
\* the default options the durations are those from 60 to 300.
C32_DurationWithinLimits ==
    /\ \A r \in BagToSet(ops) :
           r.pc = "mute" =>
               /\ r.duration \in Int
               /\ min_ban <= r.duration
               /\ r.duration <= max_ban
    /\ randint(DEFAULT_MIN_BAN, DEFAULT_MAX_BAN) = 60 .. 300

\* C32 witness: with limits 1 and 2 a Hit and a misfire both have their mute
\* call in flight, one for the lower and one for the upper limit.
C32_Witness ==
    /\ min_ban = 1
    /\ max_ban = 2
    /\ \E r, q \in BagToSet(ops) :
           /\ r.kind = "fire" /\ r.pc = "mute" /\ r.duration = min_ban
           /\ q.kind = "misfire" /\ q.pc = "mute" /\ q.duration = max_ban

\* the step ends a suspended fire that holds game id
FireEndsOn(id) ==
    \E r \in BagToSet(ops) :
        r.kind = "fire" /\ r.game = id /\ CopiesIn(r, ops') < CopiesIn(r, ops)

\* C33: a suspended fire never deletes, and never cancels the timeout of, a
\* Game other than the one it shot at: when a step that resumes a fire takes
\* a Game out of the registry or cancels the armed timeout of the group, the
\* fire that ended in this step holds the Game that was registered.
C33_FireRemovesOwnGameOnly ==
    [][\A g \in Groups :
          (/\ group_games[g] # NoGame
           /\ FireCount(ops', g) < FireCount(ops, g)
           /\ \/ group_games'[g] = NoGame
              \/ /\ timeout_tasks[g] # NoTask
                 /\ Armed(timeout_tasks[g])
                 /\ tasks'[timeout_tasks[g]].state = "cancelled")
          => FireEndsOn(group_games[g])]_vars

\* C34: no two fires on a Game resolve against the same cursor position: a
\* fire reads the chamber under the cursor, clears it and advances the cursor
\* in one step, so a round gives one Hit at most, and no fire starts on a
\* position an earlier fire consumed.  (The cursor starts at 0 on a list with
\* a live round and advances by one per fire, so a position is read again
\* exactly when a fire starts with the cursor back at 0 on the emptied list.)
C34_DistinctPositions ==
    [][\A id \in DOMAIN games :
          FireOps(ops', id) > FireOps(ops, id) =>
              LET p == games[id].current IN
              /\ games'[id].chambers = [games[id].chambers EXCEPT ![p] = FALSE]
              /\ games'[id].current = (p + 1) % CHAMBER_COUNT
              /\ ~(p = 0 /\ Sum(games[id].chambers) = 0)]_vars

\* the cursor of game id is back at 0 after every chamber has been read
Wrapped(id) == games[id].current = 0 /\ Sum(games[id].chambers) = 0

\* C35: with the fires on a Game run one at a time, the fire that reads the
\* highest-indexed live chamber removes the Game: when that fire has ended the
\* registry no longer holds the Game, so no fire starts on a Game whose cursor
\* has wrapped (a Game sees at most 6 fires), and between fires no Game in
\* the registry has its cursor back at 0.
C35_SequentialFiresEndGame ==
    [][/\ \A id \in DOMAIN games :
              /\ (id \in exhausted /\ FireOps(ops', id) < FireOps(ops, id)) =>
                     \A g \in Groups : group_games'[g] # id
              /\ FireOps(ops', id) > FireOps(ops, id) => ~Wrapped(id)
       /\ NoFireInFlight =>
              \A g \in Groups : group_games[g] # NoGame => ~Wrapped(group_games[g])]_vars

\* C36: a start or fire command that ends with the generic failure reply
\* leaves the registry, the chambers, the cursor and the timeouts as they were
\* before the command: the step of a failed start creates no Game and arms
\* nothing, and a failed fire is not one that has read a chamber (no fire
\* that was suspended after advancing the cursor ends with that reply, and
\* one that fails in its first step changes nothing).
C36_FailureChangesNothing ==
    [][\A g \in Groups :
          /\ lastReply'[g] = Reply("load", "cmd", "Failed") =>
                 /\ created' = NoCreation
                 /\ UNCHANGED gameVars
          /\ lastReply'[g] = Reply("fire", "cmd", "Failed") =>
                 /\ FireCount(ops', g) = FireCount(ops, g)
                 /\ UNCHANGED gameVars]_vars

====
